---- MODULE Spec2Model ----
(***************************************************************************)
(* TrafficAgent (agent/core/brain.py): the plan -> select -> analyze ->    *)
(* verify pipeline of analyze_scenario, its tenacity retry wrappers, its   *)
(* exception handlers and the timing validation rules.                     *)
(*                                                                         *)
(* The only suspension points of the program are its four outbound         *)
(* chat-completion calls.  A state holds the request that is outstanding   *)
(* (pc), the reply in flight (inbox) and the live locals and fields of     *)
(* the agent; one action delivers a reply, and one action per call site    *)
(* runs the code that handles the reply up to the next request or to the   *)
(* end of analyze_scenario.                                                *)
(*                                                                         *)
(* Numbers of a timing payload are JSON numbers: they are held in units    *)
(* of 1/Unit second, so that a payload can carry a fractional value.       *)
(* Peak-traffic fractions are held in hundredths, verification             *)
(* confidences in tenths.                                                  *)
(***************************************************************************)
EXTENDS Integers, Sequences, FiniteSets, TLC

VARIABLES
    scenario,           \* the TrafficScenario analyze_scenario was called with
    pc,                 \* "idle", the outstanding request, "selected", or "done"
    inbox,              \* the reply in flight for the outstanding request
    plans,              \* _create_plan: the local list plans
    plan_attempt,       \* tenacity attempt_number of the running _create_single_plan
    select_out,         \* what _select_best_plan did: returned a plan / raised
    plan,               \* analyze_scenario: the local plan (_create_plan's result)
    plan_exc,           \* the exception that left _create_plan, "none" if none
    attempt,            \* tenacity attempt_number of analyze_with_plan
    timing,             \* _validate_timing_recommendations: the local timing
    analysis_exc,       \* the exception that left analyze_with_plan, "none" if none
    last_verification,  \* self.last_verification
    fallback,           \* whether _fallback_analysis was entered
    outcome,            \* how analyze_scenario ended: returned a timing / raised
    calls,              \* chat.completions.create calls issued, per call site
    context_history,    \* self.context_history
    invocation,         \* number of analyze_scenario calls made on the agent
    responses,          \* mocked client: the responses it has given, in order
    cursor,             \* mocked client: index of the next response to replay
    earlier,            \* how the first analyze_scenario call on the agent ended
    threads,            \* analyze_with_plan calls made by two threads: their locals
    writer,             \* the thread whose call assigned last_verification last
    overlapped          \* whether two of the threads' calls were ever in progress at once

vars == <<scenario, pc, inbox, plans, plan_attempt, select_out, plan, plan_exc,
          attempt, timing, analysis_exc, last_verification, fallback, outcome,
          calls, context_history, invocation, responses, cursor, earlier,
          threads, writer, overlapped>>

\* the mocked client's script and the record of the first call
mock_vars == <<responses, cursor, earlier>>

\* the two threads that call analyze_with_plan on the one agent
thread_vars == <<threads, writer, overlapped>>

----------------------------------------------------------------------------
(* Bounds of the model *)

\* plan contents the LLM can answer with: 1..MaxPlanId
MaxPlanId == 2
\* a payload number is a multiple of 1/Unit second
Unit == 2
\* longest "verifications" list of a verification reply
MaxVerifications == 1

(* Program constants *)

\* stop_after_attempt(3)
MaxAttempts == 3
\* for _ in range(3)
NumPlans == 3
\* if time < 15
MinPhaseTime == 15
\* timing.cycle_length < 60
MinCycleLength == 60
\* timing_dict["cycle_length"] > 180
MaxCycleLength == 180
\* v["confidence"] > 0.8, in tenths
CriticalConfidence == 8

----------------------------------------------------------------------------
(* Values *)

Sec(n) == n * Unit

EmptyDict == [k \in {} |-> 0]

\* dict.get(key, default)
Get(d, k, default) == IF k \in DOMAIN d THEN d[k] ELSE default

Max(a, b) == IF a >= b THEN a ELSE b

RECURSIVE SumOver(_, _)
SumOver(d, keys) ==
    IF keys = {} THEN 0
    ELSE LET k == CHOOSE x \in keys : TRUE
         IN d[k] + SumOver(d, keys \ {k})

\* sum(d.values())
SumValues(d) == SumOver(d, DOMAIN d)

Directions == {"north", "south", "east", "west"}
PhaseNames == {"north-south", "east-west", "pedestrian"}

\* TrafficScenario: only peak_traffic and intersection_type are read by the
\* code under study; peak_traffic is in hundredths.  The class declares field
\* types and no validator, so any str and any dict of floats construct: the
\* last scenario is the one test_error_handling builds.
Scenarios ==
    { [intersection_type |-> "4-way",
       peak_traffic |-> [d \in Directions |->
            CASE d = "north" -> 80 [] d = "south" -> 70 [] OTHER -> 30]],
      [intersection_type |-> "4-way",
       peak_traffic |-> [d \in Directions |->
            CASE d = "east" -> 80 [] d = "west" -> 70 [] OTHER -> 30]],
      [intersection_type |-> "4-way",
       peak_traffic |-> [d \in Directions |-> 95]],
      [intersection_type |-> "3-way",
       peak_traffic |-> [d \in Directions |->
            CASE d = "north" -> 60 [] d = "south" -> 10 [] OTHER -> 50]],
      [intersection_type |-> "t-junction",
       peak_traffic |-> [d \in {"south", "east", "west"} |->
            CASE d = "south" -> 70 [] OTHER -> 30]],
      [intersection_type |-> "invalid", peak_traffic |-> EmptyDict] }

NoScenario == [intersection_type |-> "", peak_traffic |-> EmptyDict]

PlanIds == 1..MaxPlanId
NoPlan == 0

NoReply == [kind |-> "none"]
NoTiming == [phase_timings |-> EmptyDict, cycle_length |-> 0]
NoOutcome == [kind |-> "none"]
Unset == [kind |-> "unset"]

Returned(v) == [kind |-> "return", value |-> v]
Raised(e) == [kind |-> "raise", exc |-> e]

----------------------------------------------------------------------------
(* Replies of the chat-completion service *)

\* a transport failure, arguments that are not JSON, or a JSON object
PlanReplies ==
    {[kind |-> "transport_error"], [kind |-> "bad_json"],
     [kind |-> "invalid_plan"]}
    \cup {[kind |-> "plan", plan |-> p] : p \in PlanIds}

\* selected_index as Python reads it: an int from -1 to len(plans) (a JSON
\* true or false is the int 1 or 0); "non_integer" is a value that is no
\* Python int (a string, null, a float), on which the comparison or the
\* indexing raises TypeError
SelectIndexes == (0 - 1)..NumPlans

SelectReplies ==
    {[kind |-> "transport_error"], [kind |-> "bad_json"],
     [kind |-> "missing_key"], [kind |-> "non_integer"]}
    \cup {[kind |-> "index", selected_index |-> i] : i \in SelectIndexes}

\* function_call.arguments of a timing reply (function_args): the keys the
\* JSON object holds, its phase_timings object and its cycle_length, in
\* units of 1/Unit second.  priority_phases and reasoning only matter by
\* being present.
TimingKeys == {"phase_timings", "cycle_length", "priority_phases", "reasoning"}

PhaseSeconds == {14, 15, 40, 45, 60, 90, 91}
\* whole seconds, and two fractional values that add up to a whole number
PhaseValues == {Sec(s) : s \in PhaseSeconds} \cup {Sec(40) + 1, Sec(60) - 1}
PedestrianValues == {Sec(14), Sec(15)}

PhaseTimings ==
    [{"north-south", "east-west"} -> PhaseValues]
    \cup {[k \in PhaseNames |-> IF k = "pedestrian" THEN p ELSE m[k]] :
            m \in [{"north-south", "east-west"} -> PhaseValues],
            p \in PedestrianValues}
    \cup [{"north-south"} -> {Sec(60)}]
    \cup [{"east-west", "pedestrian"} -> {Sec(40)}]

\* the LLM states the sum of its phases as the cycle length, or is off by
\* one second
CycleLengths(pt) == {SumValues(pt), SumValues(pt) + Sec(1)}

SamplePhases == [k \in {"north-south", "east-west"} |->
                    IF k = "north-south" THEN Sec(60) ELSE Sec(40)]

TimingDicts ==
    UNION {{[keys |-> TimingKeys, phase_timings |-> pt, cycle_length |-> c] :
                c \in CycleLengths(pt)} : pt \in PhaseTimings}
    \cup {[keys |-> ks, phase_timings |-> SamplePhases, cycle_length |-> Sec(100)] :
            ks \in {TimingKeys \ {k} : k \in TimingKeys}}

TimingReplies ==
    {[kind |-> "transport_error"], [kind |-> "bad_json"]}
    \cup {[kind |-> "arguments", args |-> d] : d \in TimingDicts}

\* function_call.arguments of a verification reply (results): one entry per
\* plan element with is_addressed and confidence (in tenths), and
\* overall_assessment.is_sufficient
Verifications == [is_addressed : BOOLEAN, confidence : {CriticalConfidence, CriticalConfidence + 1}]

VerificationLists ==
    UNION {[1..n -> Verifications] : n \in 0..MaxVerifications}

VerifyReplies ==
    {[kind |-> "transport_error"], [kind |-> "bad_json"], [kind |-> "missing_key"]}
    \cup {[kind |-> "results", verifications |-> vs, is_sufficient |-> b] :
            vs \in VerificationLists, b \in BOOLEAN}

Replies(request) ==
    CASE request = "plan" -> PlanReplies
      [] request = "select" -> SelectReplies
      [] request = "timing" -> TimingReplies
      [] request = "verify" -> VerifyReplies
      [] OTHER -> {}

----------------------------------------------------------------------------
(* tenacity: @retry(stop=stop_after_attempt(3), wait=wait_exponential(...)) *)
(* reraise is left at its default False: when the stop condition holds     *)
(* after a failed attempt the wrapper raises RetryError (wrapping the last *)
(* exception); otherwise it sleeps and calls the function again.           *)

\* a variant with no stop condition
create_single_plan_retry_forever(attempt_number, exc) == "retry"

\* a variant that stops one attempt late
create_single_plan_retry_late(attempt_number, exc) ==
    IF attempt_number > MaxAttempts THEN "RetryError" ELSE "retry"

\* the wrapper of _create_single_plan after an attempt that raised exc
create_single_plan_retry(attempt_number, exc) ==
    IF attempt_number >= MaxAttempts THEN "RetryError" ELSE "retry"

\* a variant that stops one attempt early
analyze_with_plan_retry_early(attempt_number, exc) ==
    IF attempt_number >= MaxAttempts - 1 THEN "RetryError" ELSE "retry"

\* a variant that stops one attempt late
analyze_with_plan_retry_late(attempt_number, exc) ==
    IF attempt_number > MaxAttempts THEN "RetryError" ELSE "retry"

\* the wrapper of analyze_with_plan after an attempt that raised exc
analyze_with_plan_retry(attempt_number, exc) ==
    IF attempt_number >= MaxAttempts THEN "RetryError" ELSE "retry"

----------------------------------------------------------------------------
(* Planning *)

\* _create_single_plan, one attempt: json.loads and Plan(**function_args);
\* every exception of the body leaves as a PlanningError
_create_single_plan(reply) ==
    IF reply.kind = "plan" THEN Returned(reply.plan)
    ELSE Raised("PlanningError")

\* a variant without the index validation: plans[index] as Python indexes a
\* list (a negative index counts from the end, an index past the end is an
\* IndexError, which the first except clause catches)
_select_best_plan_unvalidated(ps, reply) ==
    CASE reply.kind \in {"bad_json", "missing_key"} -> Returned(ps[1])
      [] reply.kind = "index" ->
            IF 0 <= reply.selected_index /\ reply.selected_index < Len(ps)
            THEN Returned(ps[reply.selected_index + 1])
            ELSE IF reply.selected_index < 0 /\ 0 - reply.selected_index <= Len(ps)
            THEN Returned(ps[Len(ps) + reply.selected_index + 1])
            ELSE Returned(ps[1])
      [] OTHER -> Raised("PlanningError")

\* _select_best_plan on the selection reply: the index must satisfy
\* 0 <= index < len(plans) (plans is 1-based here)
_select_best_plan(ps, reply) ==
    CASE reply.kind \in {"bad_json", "missing_key"} -> Returned(ps[1])
      [] reply.kind = "index" ->
            IF 0 <= reply.selected_index /\ reply.selected_index < Len(ps)
            THEN Returned(ps[reply.selected_index + 1])
            ELSE Raised("PlanningError")
      [] OTHER -> Raised("PlanningError")

\* a variant that never falls back to the first plan
_create_plan_except_no_fallback(exc, ps) ==
    IF exc = "PlanningError" THEN Raised("PlanningError") ELSE Raised(exc)

\* _create_plan's handler: except PlanningError
_create_plan_except(exc, ps) ==
    IF exc = "PlanningError"
    THEN IF ps # <<>> THEN Returned(ps[1]) ELSE Raised("PlanningError")
    ELSE Raised(exc)

\* analyze_scenario's handler: except (PlanningError, AnalysisError) runs
\* _fallback_analysis, which raises NotImplementedError
analyze_scenario_except(exc) == exc \in {"PlanningError", "AnalysisError"}

_fallback_analysis == Raised("NotImplementedError")

----------------------------------------------------------------------------
(* Timing validation.  Each operator gives "ok" or the rule that raised. *)

\* a variant that adds the two directions up
axis_volume_sum(sc, a, b) ==
    Get(sc.peak_traffic, a, 0) + Get(sc.peak_traffic, b, 0)

\* max(peak_traffic.get(a, 0), peak_traffic.get(b, 0))
axis_volume(sc, a, b) ==
    Max(Get(sc.peak_traffic, a, 0), Get(sc.peak_traffic, b, 0))

\* a variant that rejects only phases that add up to more than the cycle
cycle_length_mismatch_only_over(timing_dict) ==
    SumValues(timing_dict.phase_timings) > timing_dict.cycle_length

\* total_phase_time != timing_dict["cycle_length"]
cycle_length_mismatch(timing_dict) ==
    SumValues(timing_dict.phase_timings) # timing_dict.cycle_length

\* a variant with >= in place of > between the volumes
volume_rule_violated_inclusive(phase_timings, sc) ==
    /\ axis_volume(sc, "north", "south") >= axis_volume(sc, "east", "west")
    /\ phase_timings["north-south"] <= phase_timings["east-west"]

\* the busier-approach check: ns_volume > ew_volume and
\* phase_timings["north-south"] <= phase_timings["east-west"]
volume_rule_violated(phase_timings, sc) ==
    /\ axis_volume(sc, "north", "south") > axis_volume(sc, "east", "west")
    /\ phase_timings["north-south"] <= phase_timings["east-west"]

\* TrafficKnowledgeBase.get_minimum_green_time: no code of the agent calls it
get_minimum_green_time(intersection_type) ==
    CASE intersection_type = "4-way" -> 30
      [] intersection_type = "3-way" -> 25
      [] intersection_type = "t-junction" -> 25
      [] OTHER -> 30

\* a variant that takes the minimum from the knowledge base
below_minimum_safe_time_knowledge_base(phase_timings) ==
    \E k \in DOMAIN phase_timings :
        phase_timings[k] < Sec(get_minimum_green_time(scenario.intersection_type))

\* a variant with <= in place of <
below_minimum_safe_time_inclusive(phase_timings) ==
    \E k \in DOMAIN phase_timings : phase_timings[k] <= Sec(MinPhaseTime)

\* for direction, time in phase_timings.items(): if time < 15
below_minimum_safe_time(phase_timings) ==
    \E k \in DOMAIN phase_timings : phase_timings[k] < Sec(MinPhaseTime)

\* timing_dict["cycle_length"] > 180
exceeds_maximum_duration(timing_dict) ==
    timing_dict.cycle_length > Sec(MaxCycleLength)

_validate_timing_logic(timing_dict, sc) ==
    LET pt == timing_dict.phase_timings IN
    IF "phase_timings" \notin timing_dict.keys THEN "no_phase_timings"
    ELSE IF ~({"north-south", "east-west"} \subseteq DOMAIN pt)
         THEN "missing_main_directions"
    ELSE IF "cycle_length" \notin timing_dict.keys THEN "KeyError"
    ELSE IF cycle_length_mismatch(timing_dict) THEN "cycle_length_mismatch"
    ELSE IF volume_rule_violated(pt, sc) THEN "traffic_volumes"
    ELSE IF below_minimum_safe_time(pt) THEN "below_minimum"
    ELSE IF exceeds_maximum_duration(timing_dict) THEN "cycle_too_long"
    ELSE "ok"

\* pydantic's int: a whole number is taken as that int, a number with a
\* fractional part is an error
IsWhole(x) == x % Unit = 0
ToInt(x) == x \div Unit

\* SignalTiming(**timing_dict): the required fields are present and every
\* number is whole
SignalTimingValid(timing_dict) ==
    /\ TimingKeys \subseteq timing_dict.keys
    /\ \A k \in DOMAIN timing_dict.phase_timings :
            IsWhole(timing_dict.phase_timings[k])
    /\ IsWhole(timing_dict.cycle_length)

\* the SignalTiming built: phase_timings and cycle_length in whole seconds
SignalTiming(timing_dict) ==
    [phase_timings |-> [k \in DOMAIN timing_dict.phase_timings |->
                            ToInt(timing_dict.phase_timings[k])],
     cycle_length |-> ToInt(timing_dict.cycle_length)]

\* a variant without the lower bound on the cycle length
_check_minimum_timings_no_lower_bound(t) ==
    IF \E k \in DOMAIN t.phase_timings : t.phase_timings[k] < MinPhaseTime
    THEN "timing_too_short"
    ELSE IF t.cycle_length > MaxCycleLength
    THEN "cycle_out_of_range"
    ELSE "ok"

_check_minimum_timings(t) ==
    IF \E k \in DOMAIN t.phase_timings : t.phase_timings[k] < MinPhaseTime
    THEN "timing_too_short"
    ELSE IF t.cycle_length < MinCycleLength \/ t.cycle_length > MaxCycleLength
    THEN "cycle_out_of_range"
    ELSE "ok"

\* a variant that hands the raw payload on without SignalTiming's validation
local_validation_unconstructed(reply, sc) ==
    IF reply.kind = "transport_error" THEN "APIError"
    ELSE IF reply.kind = "bad_json" THEN "JSONDecodeError"
    ELSE IF _validate_timing_logic(reply.args, sc) # "ok"
         THEN _validate_timing_logic(reply.args, sc)
    ELSE IF ~(TimingKeys \subseteq reply.args.keys) THEN "ValidationError"
    ELSE _check_minimum_timings(SignalTiming(reply.args))

\* analyze_with_plan from the timing reply to the verification request:
\* json.loads, _validate_timing_logic, SignalTiming(**function_args),
\* _check_minimum_timings.  "ok", or the exception that the except clauses
\* of analyze_with_plan turn into an AnalysisError.
local_validation(reply, sc) ==
    IF reply.kind = "transport_error" THEN "APIError"
    ELSE IF reply.kind = "bad_json" THEN "JSONDecodeError"
    ELSE IF _validate_timing_logic(reply.args, sc) # "ok"
         THEN _validate_timing_logic(reply.args, sc)
    ELSE IF ~SignalTimingValid(reply.args) THEN "ValidationError"
    ELSE _check_minimum_timings(SignalTiming(reply.args))

\* a variant with >= in place of >
critical_misses_inclusive(results) ==
    {i \in DOMAIN results.verifications :
        /\ ~results.verifications[i].is_addressed
        /\ results.verifications[i].confidence >= CriticalConfidence}

\* critical_misses of _verify_plan_addressed
critical_misses(results) ==
    {i \in DOMAIN results.verifications :
        /\ ~results.verifications[i].is_addressed
        /\ results.verifications[i].confidence > CriticalConfidence}

\* a variant that does not read overall_assessment.is_sufficient
_verify_plan_addressed_ignores_assessment(reply) ==
    IF reply.kind # "results" THEN reply.kind
    ELSE IF critical_misses(reply) # {}
    THEN "incomplete"
    ELSE "ok"

\* a variant that takes a stored verification result for the answer
_verify_plan_addressed_cached(reply) ==
    IF last_verification # Unset THEN "ok"
    ELSE IF reply.kind # "results" THEN reply.kind
    ELSE IF critical_misses(reply) # {} \/ ~reply.is_sufficient
    THEN "incomplete"
    ELSE "ok"

\* _verify_plan_addressed on the verification reply: "ok" (results are
\* stored in last_verification) or the failure, raised as AnalysisError
_verify_plan_addressed(reply) ==
    IF reply.kind # "results" THEN reply.kind
    ELSE IF critical_misses(reply) # {} \/ ~reply.is_sufficient
    THEN "incomplete"
    ELSE "ok"

----------------------------------------------------------------------------
(* The state machine *)

NoCalls == [plan |-> 0, select |-> 0, timing |-> 0, verify |-> 0]

Threads == {1, 2}

\* a thread that has not called analyze_with_plan yet
NoCall == [pc |-> "idle", scenario |-> NoScenario, attempt |-> 0,
           timing |-> NoTiming, seen |-> 0, outcome |-> NoOutcome]

Issue(request) == calls' = [calls EXCEPT ![request] = @ + 1]

Init ==
    /\ scenario = NoScenario
    /\ pc = "idle"
    /\ inbox = NoReply
    /\ plans = <<>>
    /\ plan_attempt = 0
    /\ select_out = NoOutcome
    /\ plan = NoPlan
    /\ plan_exc = "none"
    /\ attempt = 0
    /\ timing = NoTiming
    /\ analysis_exc = "none"
    /\ last_verification = Unset
    /\ fallback = FALSE
    /\ outcome = NoOutcome
    /\ calls = NoCalls
    /\ context_history = <<>>
    /\ invocation = 0
    /\ responses = <<>>
    /\ cursor = 0
    /\ earlier = NoOutcome
    /\ threads = [i \in Threads |-> NoCall]
    /\ writer = 0
    /\ overlapped = FALSE

\* an exception leaves the try block of analyze_scenario
Finish(exc) ==
    /\ pc' = "done"
    /\ fallback' = analyze_scenario_except(exc)
    /\ outcome' = IF analyze_scenario_except(exc) THEN _fallback_analysis
                  ELSE Raised(exc)

\* _create_plan returned p (its frame, with the list plans, is gone):
\* analyze_with_plan(scenario, p) issues its first timing request
Analyze(p) ==
    /\ plan' = p
    /\ plans' = <<>>
    /\ pc' = "timing"
    /\ attempt' = 1
    /\ Issue("timing")
    /\ UNCHANGED <<plan_exc, analysis_exc, fallback, outcome>>

\* _create_plan was left by out: a plan, or an exception
LeaveCreatePlan(out) ==
    IF out.kind = "return"
    THEN Analyze(out.value)
    ELSE /\ plan_exc' = out.exc
         /\ Finish(out.exc)
         /\ UNCHANGED <<plans, plan, attempt, analysis_exc, calls>>

\* a variant for an undecorated analyze_with_plan called outside the try
\* block of analyze_scenario: the AnalysisError of the attempt reaches the
\* caller of analyze_scenario as it is
AttemptFailed_unhandled ==
    /\ timing' = NoTiming
    /\ analysis_exc' = "AnalysisError"
    /\ pc' = "done"
    /\ fallback' = FALSE
    /\ outcome' = Raised("AnalysisError")
    /\ UNCHANGED <<attempt, calls>>

\* an attempt of analyze_with_plan raised AnalysisError
AttemptFailed ==
    LET r == analyze_with_plan_retry(attempt, "AnalysisError") IN
    /\ timing' = NoTiming
    /\ IF r = "retry"
       THEN /\ attempt' = attempt + 1
            /\ pc' = "timing"
            /\ Issue("timing")
            /\ UNCHANGED <<analysis_exc, fallback, outcome>>
       ELSE /\ analysis_exc' = r
            /\ Finish(r)
            /\ UNCHANGED <<attempt, calls>>

\* analyze_scenario(sc) is called on the agent: _create_plan issues the
\* first plan request
analyze_scenario ==
    /\ pc = "idle"
    /\ \E sc \in Scenarios : scenario' = sc
    /\ pc' = "plan"
    /\ plan_attempt' = 1
    /\ Issue("plan")
    /\ invocation' = invocation + 1
    /\ UNCHANGED <<inbox, plans, select_out, plan, plan_exc, attempt, timing,
                   analysis_exc, last_verification, fallback, outcome,
                   context_history, mock_vars, thread_vars>>

\* the service answers the outstanding request
chat_completions_create ==
    /\ pc \in {"plan", "select", "timing", "verify"}
    /\ inbox = NoReply
    /\ \E r \in Replies(pc) : inbox' = r
    /\ UNCHANGED <<scenario, pc, plans, plan_attempt, select_out, plan, plan_exc,
                   attempt, timing, analysis_exc, last_verification, fallback,
                   outcome, calls, context_history, invocation, mock_vars, thread_vars>>

\* _create_plan's loop takes the reply to a plan request
_create_plan ==
    /\ pc = "plan"
    /\ inbox # NoReply
    /\ inbox' = NoReply
    /\ LET res == _create_single_plan(inbox) IN
       IF res.kind = "return"
       THEN /\ plans' = Append(plans, res.value)
            /\ IF Len(plans) + 1 < NumPlans
               THEN /\ pc' = "plan"
                    /\ plan_attempt' = 1
                    /\ Issue("plan")
               ELSE /\ pc' = "select"
                    /\ plan_attempt' = 0
                    /\ Issue("select")
            /\ UNCHANGED <<plan, plan_exc, attempt, analysis_exc, fallback, outcome>>
       ELSE LET r == create_single_plan_retry(plan_attempt, res.exc) IN
            /\ IF r = "retry"
               THEN /\ pc' = "plan"
                    /\ plan_attempt' = plan_attempt + 1
                    /\ Issue("plan")
                    /\ UNCHANGED <<plans, plan, plan_exc, attempt, analysis_exc,
                                   fallback, outcome>>
               ELSE /\ plan_attempt' = plan_attempt
                    /\ LeaveCreatePlan(_create_plan_except(r, plans))
    /\ UNCHANGED <<scenario, select_out, timing, last_verification,
                   context_history, invocation, mock_vars, thread_vars>>

\* _select_best_plan takes the reply to the selection request and returns
\* or raises to _create_plan
select_best_plan_reply ==
    /\ pc = "select"
    /\ inbox # NoReply
    /\ select_out' = _select_best_plan(plans, inbox)
    /\ pc' = "selected"
    /\ UNCHANGED <<scenario, inbox, plans, plan_attempt, plan, plan_exc, attempt,
                   timing, analysis_exc, last_verification, fallback, outcome,
                   calls, context_history, invocation, mock_vars, thread_vars>>

\* _create_plan takes what _select_best_plan returned or raised: return
\* best_plan, or the except PlanningError clause
create_plan_return ==
    /\ pc = "selected"
    /\ inbox' = NoReply
    /\ LeaveCreatePlan(IF select_out.kind = "return" THEN select_out
                       ELSE _create_plan_except(select_out.exc, plans))
    /\ UNCHANGED <<scenario, plan_attempt, select_out, timing, last_verification,
                   context_history, invocation, mock_vars, thread_vars>>

\* analyze_with_plan takes the reply to a timing request
analyze_with_plan ==
    /\ pc = "timing"
    /\ inbox # NoReply
    /\ inbox' = NoReply
    /\ IF local_validation(inbox, scenario) = "ok"
       THEN /\ timing' = SignalTiming(inbox.args)
            /\ pc' = "verify"
            /\ Issue("verify")
            /\ UNCHANGED <<attempt, analysis_exc, fallback, outcome>>
       ELSE AttemptFailed
    /\ UNCHANGED <<scenario, plans, plan_attempt, select_out, plan, plan_exc,
                   last_verification, context_history, invocation, mock_vars, thread_vars>>

\* _verify_plan_addressed takes the reply to the verification request
verify_plan_reply ==
    /\ pc = "verify"
    /\ inbox # NoReply
    /\ inbox' = NoReply
    /\ IF _verify_plan_addressed(inbox) = "ok"
       THEN /\ last_verification' = inbox
            /\ outcome' = Returned(timing)
            /\ pc' = "done"
            /\ UNCHANGED <<attempt, timing, analysis_exc, fallback, calls>>
       ELSE /\ AttemptFailed
            /\ UNCHANGED last_verification
    /\ UNCHANGED <<scenario, plans, plan_attempt, select_out, plan, plan_exc,
                   context_history, invocation, mock_vars, thread_vars>>

Next ==
    \/ analyze_scenario
    \/ chat_completions_create
    \/ _create_plan
    \/ select_best_plan_reply
    \/ create_plan_return
    \/ analyze_with_plan
    \/ verify_plan_reply

Spec == Init /\ [][Next]_vars

\* every call of chat.completions.create returns or raises, and the
\* interpreter runs the code that follows: a step that can be taken is taken
FairSpec == Spec /\ WF_vars(Next)

----------------------------------------------------------------------------
(* Two analyze_scenario calls on one agent, against a mocked client: the   *)
(* first call is answered from a small set of scripted responses, which    *)
(* the mock records; the second call, with the same scenario, is answered  *)
(* with the same responses in the same order.                              *)

MockPhases == {<<Sec(60), Sec(40)>>, <<Sec(90), Sec(60)>>, <<Sec(45), Sec(45)>>}

MockReplies(request) ==
    CASE request = "plan" ->
            {r \in PlanReplies : r.kind = "bad_json" \/ (r.kind = "plan" /\ r.plan = 1)}
      [] request = "select" ->
            {r \in SelectReplies :
                r.kind = "bad_json" \/ (r.kind = "index" /\ r.selected_index = 0)}
      [] request = "timing" ->
            {r \in TimingReplies :
                /\ r.kind = "arguments"
                /\ r.args.keys = TimingKeys
                /\ DOMAIN r.args.phase_timings = {"north-south", "east-west"}
                /\ <<r.args.phase_timings["north-south"],
                      r.args.phase_timings["east-west"]>> \in MockPhases
                /\ r.args.cycle_length = SumValues(r.args.phase_timings)}
      [] request = "verify" ->
            {r \in VerifyReplies : r.kind = "results" /\ r.verifications = <<>>}
      [] OTHER -> {}

\* a response whose arguments were written for another function: the JSON
\* object lacks the keys the caller reads
WrongSchema(request) ==
    CASE request = "plan" -> [kind |-> "invalid_plan"]
      [] request = "timing" ->
            [kind |-> "arguments",
             args |-> [keys |-> {}, phase_timings |-> EmptyDict, cycle_length |-> 0]]
      [] OTHER -> [kind |-> "missing_key"]

\* the mock's next response on replay; a mock with no response left raises
Replay(request) ==
    IF cursor > Len(responses) THEN [kind |-> "transport_error"]
    ELSE IF responses[cursor].request = request THEN responses[cursor].reply
    ELSE WrongSchema(request)

\* the mocked chat.completions.create answers the outstanding request
mock_create ==
    /\ pc \in {"plan", "select", "timing", "verify"}
    /\ inbox = NoReply
    /\ IF invocation = 1
       THEN /\ \E r \in MockReplies(pc) :
                    /\ inbox' = r
                    /\ responses' = Append(responses, [request |-> pc, reply |-> r])
            /\ UNCHANGED cursor
       ELSE /\ inbox' = Replay(pc)
            /\ cursor' = cursor + 1
            /\ UNCHANGED responses
    /\ UNCHANGED <<scenario, pc, plans, plan_attempt, select_out, plan, plan_exc,
                   attempt, timing, analysis_exc, last_verification, fallback,
                   outcome, calls, context_history, invocation, earlier,
                   thread_vars>>

\* analyze_scenario is called a second time on the agent, with the same
\* scenario: the locals of the first call are gone, the fields of the agent
\* are as the first call left them
analyze_scenario_again ==
    /\ pc = "done"
    /\ invocation = 1
    /\ invocation' = 2
    /\ earlier' = outcome
    /\ cursor' = 1
    /\ pc' = "plan"
    /\ plan_attempt' = 1
    /\ calls' = [NoCalls EXCEPT !["plan"] = 1]
    /\ plans' = <<>>
    /\ select_out' = NoOutcome
    /\ plan' = NoPlan
    /\ plan_exc' = "none"
    /\ attempt' = 0
    /\ timing' = NoTiming
    /\ analysis_exc' = "none"
    /\ fallback' = FALSE
    /\ outcome' = NoOutcome
    /\ UNCHANGED <<scenario, inbox, last_verification, context_history, responses,
                   thread_vars>>

NextRuns ==
    \/ analyze_scenario
    \/ mock_create
    \/ _create_plan
    \/ select_best_plan_reply
    \/ create_plan_return
    \/ analyze_with_plan
    \/ verify_plan_reply
    \/ analyze_scenario_again

SpecRuns == Init /\ [][NextRuns]_vars

----------------------------------------------------------------------------
(* Two threads call analyze_with_plan on one agent.  The agent holds no    *)
(* lock and a thread can be preempted between any two statements, so the   *)
(* assignment to self.last_verification and the return of the call are     *)
(* separate steps.  A step takes a thread from one chat.completions.create *)
(* call to the next, to that assignment, or out of analyze_with_plan.      *)

\* the variables of the single analyze_scenario call, which no thread step
\* changes
call_vars == <<scenario, pc, inbox, plans, plan_attempt, select_out, plan,
               plan_exc, attempt, timing, analysis_exc, fallback, outcome,
               calls, context_history, invocation, mock_vars>>

InProgress(t) == t.pc \in {"timing", "verify", "stored"}

\* what the service answers a thread's request
ThreadReplies(request) ==
    MockReplies(request)
    \cup {r \in Replies(request) : r.kind = "bad_json"}

\* a variant that keeps a verification result that is already stored
store_last_verification_if_unset(i, results) ==
    IF last_verification = Unset
    THEN last_verification' = results /\ writer' = i
    ELSE UNCHANGED <<last_verification, writer>>

\* self.last_verification = results, by thread i
store_last_verification(i, results) ==
    /\ last_verification' = results
    /\ writer' = i

\* an attempt of thread i raised AnalysisError: the wrapper calls
\* analyze_with_plan again or raises
thread_attempt_failed(i) ==
    LET r == analyze_with_plan_retry(threads[i].attempt, "AnalysisError") IN
    threads' = [threads EXCEPT ![i] =
        IF r = "retry"
        THEN [@ EXCEPT !.pc = "timing", !.attempt = @ + 1, !.timing = NoTiming]
        ELSE [@ EXCEPT !.pc = "raised", !.timing = NoTiming,
                       !.outcome = Raised(r)]]

\* a thread calls analyze_with_plan, which issues its first timing request
thread_call ==
    \E i \in Threads, sc \in Scenarios :
        /\ threads[i].pc = "idle"
        /\ threads' = [threads EXCEPT ![i] =
                [@ EXCEPT !.pc = "timing", !.scenario = sc, !.attempt = 1]]
        /\ overlapped' = (overlapped
                            \/ \E j \in Threads \ {i} : InProgress(threads[j]))
        /\ UNCHANGED <<last_verification, writer, call_vars>>

\* a thread's timing request is answered: local validation, then the
\* verification request
thread_timing_reply ==
    \E i \in Threads, r \in ThreadReplies("timing") :
        /\ threads[i].pc = "timing"
        /\ IF local_validation(r, threads[i].scenario) = "ok"
           THEN threads' = [threads EXCEPT ![i] =
                    [@ EXCEPT !.pc = "verify", !.timing = SignalTiming(r.args)]]
           ELSE thread_attempt_failed(i)
        /\ UNCHANGED <<last_verification, writer, overlapped, call_vars>>

\* a thread's verification request is answered: on success the results are
\* assigned to self.last_verification
thread_verify_reply ==
    \E i \in Threads, r \in ThreadReplies("verify") :
        /\ threads[i].pc = "verify"
        /\ IF _verify_plan_addressed(r) = "ok"
           THEN /\ store_last_verification(i, r)
                /\ threads' = [threads EXCEPT ![i] = [@ EXCEPT !.pc = "stored"]]
           ELSE /\ thread_attempt_failed(i)
                /\ UNCHANGED <<last_verification, writer>>
        /\ UNCHANGED <<overlapped, call_vars>>

\* _verify_plan_addressed, _validate_timing_recommendations and
\* analyze_with_plan return: the thread has its timing, and seen is the
\* thread whose results self.last_verification holds at that moment
thread_return ==
    \E i \in Threads :
        /\ threads[i].pc = "stored"
        /\ threads' = [threads EXCEPT ![i] =
                [@ EXCEPT !.pc = "returned", !.seen = writer,
                          !.outcome = Returned(threads[i].timing)]]
        /\ UNCHANGED <<last_verification, writer, overlapped, call_vars>>

NextThreads ==
    \/ thread_call
    \/ thread_timing_reply
    \/ thread_verify_reply
    \/ thread_return

SpecThreads == Init /\ [][NextThreads]_vars

----------------------------------------------------------------------------
(* Properties *)

ReturnedTiming == outcome.kind = "return"

MainPhases == {"north-south", "east-west"}

\* the two axis volumes as the specification defines them: the larger of the
\* two directions of the axis, a missing direction counting as 0
NSVolume(sc) ==
    LET n == IF "north" \in DOMAIN sc.peak_traffic THEN sc.peak_traffic["north"] ELSE 0
        so == IF "south" \in DOMAIN sc.peak_traffic THEN sc.peak_traffic["south"] ELSE 0
    IN IF n > so THEN n ELSE so

EWVolume(sc) ==
    LET e == IF "east" \in DOMAIN sc.peak_traffic THEN sc.peak_traffic["east"] ELSE 0
        w == IF "west" \in DOMAIN sc.peak_traffic THEN sc.peak_traffic["west"] ELSE 0
    IN IF e > w THEN e ELSE w

\* C1: every timing analyze_scenario returns holds the phases north-south
\* and east-west, and its cycle_length is the sum of all its phase timings.
C1_CycleIsPhaseSum ==
    ReturnedTiming =>
        /\ MainPhases \subseteq DOMAIN outcome.value.phase_timings
        /\ outcome.value.cycle_length = SumValues(outcome.value.phase_timings)

\* a timing with a third phase was returned
C1_Witness ==
    /\ ReturnedTiming
    /\ DOMAIN outcome.value.phase_timings = PhaseNames

\* C2: every timing returned has every phase timing >= 15 and a cycle_length
\* between 60 and 180.
C2_SafeRanges ==
    ReturnedTiming =>
        /\ \A k \in DOMAIN outcome.value.phase_timings :
                outcome.value.phase_timings[k] >= 15
        /\ outcome.value.cycle_length >= 60
        /\ outcome.value.cycle_length <= 180
        /\ DOMAIN outcome.value.phase_timings # {}

\* a timing at both bounds was returned: a phase of 15 s in a cycle of 60 s
C2_Witness ==
    /\ ReturnedTiming
    /\ outcome.value.cycle_length = 60
    /\ \E k \in DOMAIN outcome.value.phase_timings :
            outcome.value.phase_timings[k] = 15

\* C3: in every timing returned the busier axis has the strictly longer
\* phase, whichever axis is the busier one.
C3_BusierAxisLonger ==
    ReturnedTiming =>
        LET pt == outcome.value.phase_timings IN
        /\ NSVolume(scenario) > EWVolume(scenario)
                => pt["north-south"] > pt["east-west"]
        /\ EWVolume(scenario) > NSVolume(scenario)
                => pt["east-west"] > pt["north-south"]


SampleScenario ==
    [intersection_type |-> "4-way",
     peak_traffic |-> [d \in Directions |->
        CASE d = "north" -> 80 [] d = "south" -> 70 [] OTHER -> 30]]

\* a payload as C4 describes it: well-typed, both axis phases, phases adding
\* up to cycle_length, every phase >= 15, 60 <= cycle_length <= 180, and the
\* busier axis with the strictly longer phase
C4_Valid(d, sc) ==
    LET pt == d.phase_timings IN
    /\ d.keys = TimingKeys
    /\ \A k \in DOMAIN pt : pt[k] % Unit = 0
    /\ d.cycle_length % Unit = 0
    /\ MainPhases \subseteq DOMAIN pt
    /\ SumValues(pt) = d.cycle_length
    /\ \A k \in DOMAIN pt : pt[k] >= 15 * Unit
    /\ d.cycle_length >= 60 * Unit
    /\ d.cycle_length <= 180 * Unit
    /\ NSVolume(sc) > EWVolume(sc) => pt["north-south"] > pt["east-west"]
    /\ EWVolume(sc) > NSVolume(sc) => pt["east-west"] > pt["north-south"]

\* a verification reply as C4 and C5 describe it: is_sufficient, and no item
\* that is unaddressed with confidence > 0.8
Sufficient(r) ==
    /\ r.kind = "results"
    /\ r.is_sufficient = TRUE
    /\ \A i \in DOMAIN r.verifications :
            ~(r.verifications[i].is_addressed = FALSE
              /\ r.verifications[i].confidence > 8)

\* C4: analyze_with_plan takes every valid payload to the verification call
\* with its phase_timings and cycle_length unchanged, and returns that timing
\* when the verification reply is sufficient with no critical miss; a payload
\* with cycle_length 181 or a phase of 14 never gets that far.
C4_AcceptsValidPayloads ==
    /\ [][(pc = "timing" /\ inbox.kind = "arguments" /\ inbox' = NoReply) =>
            /\ C4_Valid(inbox.args, scenario) =>
                    /\ pc' = "verify"
                    /\ DOMAIN timing'.phase_timings = DOMAIN inbox.args.phase_timings
                    /\ \A k \in DOMAIN inbox.args.phase_timings :
                            timing'.phase_timings[k] * Unit = inbox.args.phase_timings[k]
                    /\ timing'.cycle_length * Unit = inbox.args.cycle_length
            /\ (\/ inbox.args.cycle_length = 181 * Unit
                \/ \E k \in DOMAIN inbox.args.phase_timings :
                        inbox.args.phase_timings[k] = 14 * Unit)
                    => pc' # "verify"]_vars
    /\ [][(pc = "verify" /\ Sufficient(inbox) /\ inbox' = NoReply) =>
            /\ pc' = "done"
            /\ outcome' = Returned(timing)]_vars

\* the sample scenario's payload {north-south: 60, east-west: 40} was returned
\* with cycle_length 100
C4_Witness ==
    /\ ReturnedTiming
    /\ scenario = SampleScenario
    /\ DOMAIN outcome.value.phase_timings = MainPhases
    /\ outcome.value.phase_timings["north-south"] = 60
    /\ outcome.value.phase_timings["east-west"] = 40
    /\ outcome.value.cycle_length = 100

\* C5: the attempt that takes a verification reply returns its timing exactly
\* when the reply is sufficient and holds no unaddressed item of confidence
\* > 0.8 (an unaddressed item of exactly 0.8 does not count); otherwise the
\* attempt fails.
C5_ReturnsIffVerified ==
    [][(pc = "verify" /\ inbox # NoReply /\ inbox' = NoReply) =>
            /\ (outcome'.kind = "return") <=> Sufficient(inbox)
            /\ ~Sufficient(inbox) => (pc' = "timing" \/ outcome'.kind = "raise")]_vars

\* a timing was returned on a reply with an unaddressed item of confidence 0.8
C5_Witness ==
    /\ ReturnedTiming
    /\ last_verification.kind = "results"
    /\ \E i \in DOMAIN last_verification.verifications :
            /\ last_verification.verifications[i].is_addressed = FALSE
            /\ last_verification.verifications[i].confidence = 8

\* C6: analyze_scenario ends by returning a timing or through
\* _fallback_analysis; no stage failure leaves it any other way.
C6_FailureReachesFallback ==
    pc = "done" => (outcome.kind = "return" \/ fallback)

OutOfRange(r) ==
    /\ r.kind = "index"
    /\ (r.selected_index < 0 \/ r.selected_index >= 3)

\* C7 (as stated): on an out-of-range or unparsable selection reply
\* _select_best_plan returns the first plan and does not raise.
C7_SelectNeverRaises ==
    (pc = "selected" /\ (OutOfRange(inbox) \/ inbox.kind \in {"bad_json", "missing_key"}))
        => select_out = Returned(plans[1])

\* C7 (amended): on bad JSON or a missing selected_index key _select_best_plan
\* returns the first plan; on an out-of-range index it raises PlanningError,
\* and _create_plan then returns the first plan.
C7_SelectFallsBackOrRaises ==
    /\ [](pc = "selected" =>
            /\ inbox.kind \in {"bad_json", "missing_key"}
                    => select_out = Returned(plans[1])
            /\ OutOfRange(inbox) => select_out = Raised("PlanningError"))
    /\ [][(pc = "selected" /\ OutOfRange(inbox)) =>
            (pc' = "timing" /\ plan' = plans[1])]_vars

\* _select_best_plan raised on the index 3
C7_Witness ==
    /\ pc = "selected"
    /\ inbox.kind = "index"
    /\ inbox.selected_index = 3
    /\ select_out.kind = "raise"

\* C8: with three plans generated _create_plan returns a plan whatever the
\* selection reply is: plans[i] for an index i in range, else plans[0].
C8_SelectionNeverFatal ==
    [][pc = "selected" =>
            /\ Len(plans) = 3
            /\ pc' = "timing"
            /\ plan' = IF inbox.kind = "index" /\ ~OutOfRange(inbox)
                       THEN plans[inbox.selected_index + 1]
                       ELSE plans[1]]_vars

\* _select_best_plan raised, and analyze_with_plan runs with a plan
C8_Witness ==
    /\ pc = "timing"
    /\ select_out.kind = "raise"
    /\ plan \in PlanIds

\* C9: when a plan request fails its last attempt, _create_plan returns the
\* first plan produced, without a selection call, if there is one, and is
\* left by a PlanningError if there is none.
C9_ExhaustedPlanRequest ==
    [][(pc = "plan" /\ inbox # NoReply /\ inbox.kind # "plan"
            /\ plan_attempt = 3 /\ inbox' = NoReply) =>
            IF plans # <<>>
            THEN /\ pc' = "timing"
                 /\ plan' = plans[1]
                 /\ calls'.select = 0
            ELSE plan_exc' = "PlanningError"]_vars

\* C10: the error analyze_with_plan raises to its caller is an AnalysisError.
C10_RaisesAnalysisError ==
    analysis_exc # "none" => analysis_exc = "AnalysisError"

\* C11: whatever the replies are, the exception analyze_scenario raises to
\* its caller is neither a PlanningError nor an AnalysisError.
C11_NoStageErrorToCaller ==
    outcome.kind = "raise" =>
        outcome.exc \notin {"PlanningError", "AnalysisError"}

\* analyze_with_plan failed on its last attempt and analyze_scenario raised
C11_Witness ==
    /\ pc = "done"
    /\ outcome.kind = "raise"
    /\ attempt = MaxAttempts
    /\ analysis_exc # "none"

\* C12: a plan request and an analyze_with_plan invocation make at most 3
\* attempts each (one LLM timing request per attempt of analyze_with_plan),
\* and an attempt that succeeds is the last one: after a valid plan reply
\* the next plan request, if any, is attempt 1 of a new request, and after a
\* sufficient verification reply no further request is issued.
C12_RetryBudget ==
    /\ [](/\ plan_attempt <= 3
          /\ attempt <= 3
          /\ calls.timing <= 3
          /\ pc = "plan" => calls.plan <= 3 * Len(plans) + plan_attempt)
    /\ [][(pc = "plan" /\ inbox.kind = "plan" /\ inbox' = NoReply) =>
            /\ plan_attempt' \in {0, 1}
            /\ Len(plans') = Len(plans) + 1]_vars
    /\ [][(pc = "verify" /\ Sufficient(inbox) /\ inbox' = NoReply) =>
            /\ pc' = "done"
            /\ attempt' = attempt
            /\ calls' = calls]_vars

\* every plan request took three attempts, and analyze_with_plan returned a
\* timing on its third attempt
C12_Witness ==
    /\ ReturnedTiming
    /\ attempt = 3
    /\ calls.plan = 9
    /\ calls.timing = 3

\* C13 (as stated): analyze_scenario issues at most one selection call and at
\* most one verification call.
C13_CallsNotRetried ==
    /\ calls.select <= 1
    /\ calls.verify <= 1

\* C13 (amended): at most one selection call is issued; a verification call is
\* issued at most once per attempt of analyze_with_plan, after that attempt's
\* timing call, so at most 3 of them are issued.
C13_VerifyOncePerAttempt ==
    /\ calls.select <= 1
    /\ calls.verify <= attempt
    /\ calls.verify <= calls.timing
    /\ calls.verify <= 3

\* the third verification call is outstanding
C13_Witness ==
    /\ pc = "verify"
    /\ calls.verify = 3
    /\ calls.select = 1

\* chat.completions.create calls issued so far, all call sites together
TotalCalls == calls.plan + calls.select + calls.timing + calls.verify

\* C14 (as stated): an analyze_scenario invocation issues no more than 7 LLM
\* calls, and at least 4 by the time it ends.
C14_FourToSevenCalls ==
    /\ TotalCalls <= 7
    /\ pc = "done" => TotalCalls >= 4

\* C14 (amended): an analyze_scenario invocation issues no more than 16 LLM
\* calls (9 plan, 1 selection, 3 timing, 3 verification), at least 3 by the
\* time it ends, and at least 6 when it returns a timing.
C14_ThreeToSixteenCalls ==
    /\ TotalCalls <= 16
    /\ calls.plan <= 9 /\ calls.select <= 1 /\ calls.timing <= 3 /\ calls.verify <= 3
    /\ pc = "done" => TotalCalls >= 3
    /\ ReturnedTiming => TotalCalls >= 6

\* a timing was returned on the sixteenth call
C14_Witness ==
    /\ ReturnedTiming
    /\ TotalCalls = 16

\* C15 (as stated): the stages never go back: no plan call is issued once a
\* selection call was, no selection call once a timing call was, and no timing
\* call once a verification call was.
C15_StagesNeverGoBack ==
    [][/\ calls.select > 0 => calls'.plan = calls.plan
       /\ calls.timing > 0 => calls'.select = calls.select
       /\ calls.verify > 0 => calls'.timing = calls.timing]_vars

\* the stage changes of one invocation
StageSteps ==
    {<<"idle", "plan">>, <<"plan", "select">>, <<"plan", "done">>,
     <<"select", "selected">>, <<"selected", "timing">>,
     <<"timing", "verify">>, <<"timing", "done">>,
     <<"verify", "timing">>, <<"verify", "done">>}

\* C15 (amended): no plan call is issued once a selection call was and no
\* selection call once a timing call was; a timing call is issued after a
\* verification call only as the next attempt of analyze_with_plan, when the
\* verification reply was not a sufficient one and fewer than 3 attempts were
\* made; a timing is returned from the verification stage only.
C15_BackOnlyOnFailedVerification ==
    [][/\ calls.select > 0 => calls'.plan = calls.plan
       /\ calls.timing > 0 => calls'.select = calls.select
       /\ (calls.verify > 0 /\ calls'.timing # calls.timing) =>
            /\ pc \in {"timing", "verify"}
            /\ pc = "verify" => ~Sufficient(inbox)
            /\ attempt < 3
            /\ attempt' = attempt + 1
       /\ pc' # pc => <<pc, pc'>> \in StageSteps
       /\ (outcome'.kind = "return" /\ outcome.kind # "return") => pc = "verify"]_vars

\* the second timing call was issued after a verification call
C15_Witness ==
    /\ pc = "timing"
    /\ calls.timing = 2
    /\ calls.verify = 1

\* C16: with equal axis volumes the volume rule rejects no payload, and a
\* payload that meets the other rules goes on to the verification call
\* whichever of its two axis phases is the longer.
C16_EqualVolumesPassRule ==
    /\ []((pc = "timing" /\ inbox.kind = "arguments"
            /\ NSVolume(scenario) = EWVolume(scenario))
                => _validate_timing_logic(inbox.args, scenario) # "traffic_volumes")
    /\ [][(pc = "timing" /\ inbox.kind = "arguments" /\ inbox' = NoReply
            /\ NSVolume(scenario) = EWVolume(scenario)
            /\ C4_Valid(inbox.args, scenario))
                => pc' = "verify"]_vars

\* with all four volumes at 0.95 a timing with north-south shorter than
\* east-west was returned
C16_Witness ==
    /\ ReturnedTiming
    /\ NSVolume(scenario) = 95
    /\ EWVolume(scenario) = 95
    /\ outcome.value.phase_timings["north-south"]
            < outcome.value.phase_timings["east-west"]

\* C17: last_verification is written by the verification stage only; a reply
\* that is sufficient with no critical miss is stored as it is and its timing
\* returned, any other reply (critical miss, insufficient, malformed) leaves
\* last_verification as it was; so whatever it holds is a sufficient reply
\* with no critical miss.
C17_LastVerificationOnSuccess ==
    /\ [](last_verification = Unset \/ Sufficient(last_verification))
    /\ [](ReturnedTiming => Sufficient(last_verification))
    /\ [][(pc = "verify" /\ inbox # NoReply /\ inbox' = NoReply) =>
            /\ Sufficient(inbox) =>
                    /\ last_verification' = inbox
                    /\ outcome' = Returned(timing)
            /\ ~Sufficient(inbox) => last_verification' = last_verification]_vars
    /\ [][last_verification' # last_verification => pc = "verify"]_vars

\* two verifications failed, the third was stored and its timing returned
C17_Witness ==
    /\ ReturnedTiming
    /\ calls.verify = 3
    /\ Sufficient(last_verification)

\* C18: an analyze_scenario invocation that returns a timing has appended the
\* pair {scenario, recommendation} to context_history, as its last entry.
C18_HistoryHoldsRecommendation ==
    ReturnedTiming =>
        /\ Len(context_history) >= 1
        /\ context_history[Len(context_history)]
                = [scenario |-> scenario, recommendation |-> outcome.value]

\* C19: a second analyze_scenario call on the same agent, with the same
\* scenario and the same responses in the same order, uses up exactly those
\* responses and ends as the first call, on the fresh agent, did: it returns
\* the same timing or raises the same exception, whatever the first call left
\* in last_verification and context_history.
C19_SameOutcomeOnReplay ==
    (invocation = 2 /\ pc = "done") =>
        /\ outcome = earlier
        /\ cursor = Len(responses) + 1

\* the second call returned a timing after a failed verification, with the
\* first call's verification result still stored during it
C19_Witness ==
    /\ invocation = 2
    /\ pc = "done"
    /\ ReturnedTiming
    /\ earlier.kind = "return"
    /\ calls.verify = 2

\* the scenario of test_error_handling: intersection_type "invalid", no lanes,
\* no peak_traffic
InvalidScenario == [intersection_type |-> "invalid", peak_traffic |-> EmptyDict]

\* C20: analyze_scenario returns no timing for the scenario of
\* test_error_handling.
C20_InvalidScenarioRejected ==
    scenario = InvalidScenario => ~ReturnedTiming

\* the attempt of analyze_with_plan that was running failed: with fewer than
\* 3 attempts made a new timing request is issued for the next attempt and
\* the rejected timing is dropped, else analyze_with_plan raises
C21_NextAttempt ==
    \/ /\ attempt < 3
       /\ pc' = "timing"
       /\ attempt' = attempt + 1
       /\ calls'.timing = calls.timing + 1
       /\ calls'.verify = calls.verify
       /\ timing' = NoTiming
    \/ /\ attempt = 3
       /\ pc' = "done"
       /\ outcome'.kind = "raise"
       /\ calls' = calls

\* C21: an attempt of analyze_with_plan that ends in a parse error, a violated
\* rule or a failed verification is followed by a fresh timing request while
\* fewer than 3 attempts were made; a payload that passes the local rules is
\* the timing sent to verification, number for number, and the timing
\* returned is the one of the attempt whose verification succeeded.
C21_RetryIssuesFreshRequest ==
    /\ [](pc \in {"timing", "verify"} => calls.timing = attempt)
    /\ [][(pc = "timing" /\ inbox # NoReply /\ inbox' = NoReply) =>
            /\ inbox.kind \in {"transport_error", "bad_json"} => pc' # "verify"
            /\ \/ /\ pc' = "verify"
                  /\ attempt' = attempt
                  /\ calls'.timing = calls.timing
                  /\ DOMAIN timing'.phase_timings = DOMAIN inbox.args.phase_timings
                  /\ \A k \in DOMAIN inbox.args.phase_timings :
                        timing'.phase_timings[k] * Unit = inbox.args.phase_timings[k]
                  /\ timing'.cycle_length * Unit = inbox.args.cycle_length
               \/ C21_NextAttempt]_vars
    /\ [][(pc = "verify" /\ inbox # NoReply /\ inbox' = NoReply) =>
            IF Sufficient(inbox)
            THEN outcome' = Returned(timing) /\ calls' = calls
            ELSE C21_NextAttempt]_vars

\* the first payload was rejected by a local rule and the second attempt's
\* timing was returned
C21_Witness ==
    /\ ReturnedTiming
    /\ attempt = 2
    /\ calls.verify = 1

\* what the local rules demand of a payload d for the scenario sc: the four
\* fields, whole numbers, both axis phases, phases adding up to cycle_length,
\* every phase >= 15, 60 <= cycle_length <= 180, and north-south the longer
\* phase when north-south is the busier axis
C22_PassedLocalRules(d, sc) ==
    LET pt == d.phase_timings IN
    /\ d.keys = TimingKeys
    /\ MainPhases \subseteq DOMAIN pt
    /\ \A k \in DOMAIN pt : pt[k] % Unit = 0 /\ pt[k] >= 15 * Unit
    /\ d.cycle_length % Unit = 0
    /\ SumValues(pt) = d.cycle_length
    /\ d.cycle_length >= 60 * Unit
    /\ d.cycle_length <= 180 * Unit
    /\ NSVolume(sc) > EWVolume(sc) => pt["north-south"] > pt["east-west"]

\* C22: a verification call is issued only by the step that takes a timing
\* payload which passes every local rule, one call for it; a step that takes a
\* parse error or a payload breaking a local rule issues none.
C22_VerifyOnlyAfterLocalRules ==
    /\ [][calls'.verify # calls.verify =>
            /\ pc = "timing"
            /\ inbox.kind = "arguments"
            /\ C22_PassedLocalRules(inbox.args, scenario)
            /\ calls'.verify = calls.verify + 1
            /\ pc' = "verify"]_vars
    /\ [][(pc = "timing" /\ inbox.kind = "arguments" /\ inbox' = NoReply
            /\ ~C22_PassedLocalRules(inbox.args, scenario)) =>
                (calls'.verify = calls.verify /\ pc' # "verify")]_vars

\* the third attempt reached verification after one attempt that failed
\* verification and one that was rejected locally without a verification call
C22_Witness ==
    /\ pc = "verify"
    /\ attempt = 3
    /\ calls.verify = 2

\* north 0.6, south 0.1, east 0.5, west 0.5: north-south has the larger
\* maximum, east-west the larger sum and the larger average
MaxNotSumScenario ==
    [intersection_type |-> "3-way",
     peak_traffic |-> [d \in Directions |->
        CASE d = "north" -> 60 [] d = "south" -> 10 [] OTHER -> 50]]

\* C23: when the larger of north and south (a missing one counting as 0)
\* exceeds the larger of east and west, a payload with north-south <=
\* east-west is rejected before verification: so it is with north 0.6,
\* south 0.1, east 0.5, west 0.5, and with no "north" and south 0.7 against
\* east and west 0.3.
C23_BusierAxisByMaximum ==
    /\ [](scenario = MaxNotSumScenario =>
            axis_volume(scenario, "north", "south")
                > axis_volume(scenario, "east", "west"))
    /\ []("north" \notin DOMAIN scenario.peak_traffic =>
            axis_volume(scenario, "north", "south")
                = Get(scenario.peak_traffic, "south", 0))
    /\ [][(pc = "timing" /\ inbox.kind = "arguments" /\ inbox' = NoReply
            /\ MainPhases \subseteq DOMAIN inbox.args.phase_timings
            /\ inbox.args.phase_timings["north-south"]
                    <= inbox.args.phase_timings["east-west"]
            /\ NSVolume(scenario) > EWVolume(scenario))
                => pc' # "verify"]_vars

\* for the scenario without "north" (south 0.7, east and west 0.3) a timing
\* with the longer north-south phase was returned after a rejected attempt
C23_Witness ==
    /\ ReturnedTiming
    /\ "north" \notin DOMAIN scenario.peak_traffic
    /\ "south" \in DOMAIN scenario.peak_traffic
    /\ attempt > calls.verify
    /\ outcome.value.phase_timings["north-south"]
            > outcome.value.phase_timings["east-west"]

IntersectionTypes == {"4-way", "3-way", "t-junction", "invalid"}

\* C24: the result of the local validation of a payload is the same for the
\* scenario and for the scenario with any other intersection_type, and a
\* payload whose shortest phase is 15 passes the local rules for every
\* intersection type when it meets the other rules.
C24_VerdictIgnoresIntersectionType ==
    /\ []((pc = "timing" /\ inbox # NoReply) =>
            \A t \in IntersectionTypes :
                local_validation(inbox, [scenario EXCEPT !.intersection_type = t])
                    = local_validation(inbox, scenario))
    /\ [][(pc = "timing" /\ inbox.kind = "arguments" /\ inbox' = NoReply
            /\ C4_Valid(inbox.args, scenario)
            /\ \E k \in DOMAIN inbox.args.phase_timings :
                    inbox.args.phase_timings[k] = 15 * Unit)
                => pc' = "verify"]_vars

\* a timing with a phase of 15 s was returned for the 3-way and for the
\* t-junction scenario, whose knowledge-base minimum is 25 s
C24_Witness ==
    /\ ReturnedTiming
    /\ scenario.intersection_type \in {"3-way", "t-junction"}
    /\ \E k \in DOMAIN outcome.value.phase_timings :
            outcome.value.phase_timings[k] = 15

\* C25: every analyze_scenario invocation ends, by a return or a raise, and
\* by then has issued at most 9 plan calls, 1 selection call, 3 timing calls
\* and 3 verification calls, 16 in all.
C25_TerminatesWithinSixteenCalls ==
    /\ <>(pc = "done" /\ outcome.kind \in {"return", "raise"})
    /\ [](/\ calls.plan <= 9
          /\ calls.select <= 1
          /\ calls.timing <= 3
          /\ calls.verify <= 3
          /\ TotalCalls <= 16)

\* the invocation ended with a raise on its sixteenth call
C25_Witness ==
    /\ pc = "done"
    /\ outcome.kind = "raise"
    /\ TotalCalls = 16

\* C26: analyze_with_plan returns to a thread while last_verification holds
\* the results stored by the other thread's call only when the two calls
\* were in progress at the same time; when one call follows the other, each
\* returns with last_verification holding its own results.
C26_StaleOnlyWhenInterleaved ==
    \A i \in Threads :
        threads[i].pc = "returned" =>
            /\ threads[i].seen \in Threads
            /\ threads[i].seen # i => overlapped

\* a thread's call returned its timing while last_verification held the
\* results stored for the other thread's timing, a different one
C26_Witness ==
    \E i \in Threads :
        /\ threads[i].pc = "returned"
        /\ threads[i].seen \in Threads \ {i}
        /\ threads[i].outcome.kind = "return"
        /\ threads[threads[i].seen].timing # threads[i].outcome.value

====
